---------------------------- MODULE Spec2Model ----------------------------
(***************************************************************************)
(* A model of mtp_sdk: the introspection engine that derives a tool schema *)
(* from a Click command tree (introspect.py), the serializer to_dict       *)
(* (types.py) and the --mtp-describe activation flag (__init__.py).        *)
(*                                                                         *)
(* Representation.  A Python str is a sequence of one-character strings,   *)
(* so that startswith, split, strip, len and concatenation are computed.   *)
(* Every Python value that can sit in a dataclass field, a dict or a       *)
(* default is a tagged tuple <<tag, payload>> (None is <<"None">>), so     *)
(* values of different Python types can be compared.  A dict is the        *)
(* sequence of its <<key, value>> items in insertion order.  A dataclass   *)
(* instance is <<ClassName, record of its fields>>.  Click's own objects   *)
(* (parameters, commands) are plain records of the attributes the code     *)
(* reads.                                                                  *)
(***************************************************************************)
EXTENDS Integers, Sequences, FiniteSets, TLC

(***************************************************************************)
(* Python values                                                           *)
(***************************************************************************)
None == <<"None">>
Sentinel == <<"Sentinel">>
PyStr(s) == <<"str", s>>
PyBool(b) == <<"bool", b>>
PyInt(n) == <<"int", n>>
PyFloat(m, e) == <<"float", m, e>>     \* the number m / 10^e
PyTuple(s) == <<"tuple", s>>
PyList(s) == <<"list", s>>
PyDict(items) == <<"dict", items>>

IsStr(v) == v[1] = "str"
IsList(v) == v[1] = "list"
IsDict(v) == v[1] = "dict"
IsDataclass(v) ==
    v[1] \in {"Example", "IODescriptor", "ArgDescriptor", "CommandDescriptor",
              "AuthConfig", "ToolSchema", "CommandAnnotation", "DescribeOptions"}

\* bool(v), as Python's "if v:" decides it
Truthy(v) ==
    CASE v[1] = "None" -> FALSE
      [] v[1] = "bool" -> v[2]
      [] v[1] = "int" -> v[2] # 0
      [] v[1] = "float" -> v[2] # 0
      [] v[1] \in {"str", "tuple", "list", "dict"} -> Len(v[2]) > 0
      [] OTHER -> TRUE

\* v1 or v2
Or(v1, v2) == IF Truthy(v1) THEN v1 ELSE v2

(***************************************************************************)
(* dict operations (items kept in insertion order)                         *)
(***************************************************************************)
DictKeys(items) == {items[i][1] : i \in 1..Len(items)}

DictGet(items, k) ==
    IF k \in DictKeys(items)
    THEN items[CHOOSE i \in 1..Len(items) : items[i][1] = k][2]
    ELSE None

\* result[k] = v
DictSet(items, k, v) ==
    IF k \in DictKeys(items)
    THEN [i \in 1..Len(items) |-> IF items[i][1] = k THEN <<k, v>> ELSE items[i]]
    ELSE Append(items, <<k, v>>)

\* del result[k]
DictDel(items, k) == SelectSeq(items, LAMBDA it : it[1] # k)

(***************************************************************************)
(* str operations                                                          *)
(***************************************************************************)
Whitespace == {" ", "\n", "\t", "\r"}

RECURSIVE LStrip(_)
LStrip(s) == IF s # <<>> /\ Head(s) \in Whitespace THEN LStrip(Tail(s)) ELSE s

RECURSIVE RStrip(_)
RStrip(s) ==
    IF s # <<>> /\ s[Len(s)] \in Whitespace
    THEN RStrip(SubSeq(s, 1, Len(s) - 1))
    ELSE s

\* s.strip()
Strip(s) == RStrip(LStrip(s))

\* s.split(sep) for a one-character sep: the list of pieces
RECURSIVE Split(_, _)
Split(s, sep) ==
    IF \E i \in 1..Len(s) : s[i] = sep
    THEN LET i == CHOOSE j \in 1..Len(s) :
                      s[j] = sep /\ \A k \in 1..(j - 1) : s[k] # sep
         IN  <<SubSeq(s, 1, i - 1)>> \o Split(SubSeq(s, i + 1, Len(s)), sep)
    ELSE <<s>>

\* s.startswith(c) for a one-character c
StartsWith(s, c) == s # <<>> /\ s[1] = c

LowerLetters ==
    <<"a", "b", "c", "d", "e", "f", "g", "h", "i", "j", "k", "l", "m",
      "n", "o", "p", "q", "r", "s", "t", "u", "v", "w", "x", "y", "z">>
UpperLetters ==
    <<"A", "B", "C", "D", "E", "F", "G", "H", "I", "J", "K", "L", "M",
      "N", "O", "P", "Q", "R", "S", "T", "U", "V", "W", "X", "Y", "Z">>

ToUpper(c) ==
    IF \E i \in 1..26 : LowerLetters[i] = c
    THEN UpperLetters[CHOOSE i \in 1..26 : LowerLetters[i] = c]
    ELSE c
ToLower(c) ==
    IF \E i \in 1..26 : UpperLetters[i] = c
    THEN LowerLetters[CHOOSE i \in 1..26 : UpperLetters[i] = c]
    ELSE c

\* s.capitalize(): first character upper-cased, the rest lower-cased
Capitalize(s) ==
    [i \in 1..Len(s) |-> IF i = 1 THEN ToUpper(s[i]) ELSE ToLower(s[i])]

RECURSIVE Concat(_)
Concat(ss) == IF ss = <<>> THEN <<>> ELSE Head(ss) \o Concat(Tail(ss))


DigitChars == <<"0", "1", "2", "3", "4", "5", "6", "7", "8", "9">>
IsDigit(c) == \E i \in 1..10 : DigitChars[i] = c
DigitVal(c) == (CHOOSE i \in 1..10 : DigitChars[i] = c) - 1

RECURSIVE DigitsVal(_)
DigitsVal(s) ==
    IF s = <<>> THEN 0
    ELSE 10 * DigitsVal(SubSeq(s, 1, Len(s) - 1)) + DigitVal(s[Len(s)])

AllDigits(s) == s # <<>> /\ \A i \in 1..Len(s) : IsDigit(s[i])

\* the sign and the unsigned rest of a numeric literal
SignOf(s) == IF StartsWith(s, "-") THEN -1 ELSE 1
Unsigned(s) == IF StartsWith(s, "-") \/ StartsWith(s, "+") THEN Tail(s) ELSE s

\* int(s) succeeds: optional surrounding whitespace, optional sign, decimal
\* digits; "_" digit separators and non-ASCII digits are outside the modelled
\* inputs
IntParses(s) == AllDigits(Unsigned(Strip(s)))
IntOf(s) == SignOf(Strip(s)) * DigitsVal(Unsigned(Strip(s)))

RECURSIVE Pow10(_)
Pow10(n) == IF n = 0 THEN 1 ELSE 10 * Pow10(n - 1)

\* the float m / 10^e with e as small as possible
RECURSIVE NormFloat(_, _)
NormFloat(m, e) ==
    IF e > 0 /\ m % 10 = 0 THEN NormFloat(m \div 10, e - 1) ELSE PyFloat(m, e)

\* float(s) succeeds on the decimal forms d, d.d, d. and .d (optional sign and
\* surrounding whitespace); exponents, inf and nan are outside the modelled inputs
FloatParses(s) ==
    LET u == Unsigned(Strip(s))
        parts == Split(u, ".")
    IN  \/ AllDigits(u)
        \/ /\ Len(parts) = 2
           /\ parts[1] \o parts[2] # <<>>
           /\ \A i \in 1..2 : parts[i] = <<>> \/ AllDigits(parts[i])
FloatOf(s) ==
    LET u == Unsigned(Strip(s))
        parts == Split(u, ".")
        frac == IF Len(parts) = 2 THEN parts[2] ELSE <<>>
        m == DigitsVal(parts[1]) * Pow10(Len(frac)) + DigitsVal(frac)
    IN  NormFloat(SignOf(Strip(s)) * m, Len(frac))

(***************************************************************************)
(* types.py: the dataclasses                                               *)
(***************************************************************************)
Example(description, command, output) ==
    <<"Example", [description |-> description, command |-> command,
                  output |-> output]>>

IODescriptor(content_type, description, schema) ==
    <<"IODescriptor", [content_type |-> content_type,
                       description |-> description, schema |-> schema]>>

ArgDescriptor(name, type) ==
    <<"ArgDescriptor", [name |-> name, type |-> type, description |-> None,
                        required |-> None, default |-> None, values |-> None]>>

CommandDescriptor(name, description) ==
    <<"CommandDescriptor", [name |-> name, description |-> description,
                            args |-> None, stdin |-> None, stdout |-> None,
                            examples |-> None]>>

AuthConfig(type, description, extra) ==
    <<"AuthConfig", [type |-> type, description |-> description,
                     extra |-> extra]>>

ToolSchema(name, version, description, spec_version, commands) ==
    <<"ToolSchema", [name |-> name, version |-> version,
                     description |-> description,
                     spec_version |-> spec_version, commands |-> commands,
                     auth |-> None]>>

CommandAnnotation(stdin, stdout, examples, arg_types, arg_descriptions) ==
    <<"CommandAnnotation", [stdin |-> stdin, stdout |-> stdout,
                            examples |-> examples, arg_types |-> arg_types,
                            arg_descriptions |-> arg_descriptions]>>

DescribeOptions(version, commands, auth) ==
    <<"DescribeOptions", [version |-> version, commands |-> commands,
                          auth |-> auth]>>

\* obj with field f set to v
SetField(obj, f, v) == <<obj[1], [obj[2] EXCEPT ![f] = v]>>

(***************************************************************************)
(* introspect.py                                                           *)
(***************************************************************************)
MTP_SPEC_VERSION == PyStr(<<"2", "0", "2", "6", "-", "0", "2", "-", "0", "7">>)

s_help == <<"h", "e", "l", "p">>
s_version == <<"v", "e", "r", "s", "i", "o", "n">>
s_mtp_describe ==
    <<"m", "t", "p", "_", "d", "e", "s", "c", "r", "i", "b", "e">>
s_root == <<"_", "r", "o", "o", "t">>
s_boolean == <<"b", "o", "o", "l", "e", "a", "n">>
s_enum == <<"e", "n", "u", "m">>
s_array == <<"a", "r", "r", "a", "y">>
s_integer == <<"i", "n", "t", "e", "g", "e", "r">>
s_number == <<"n", "u", "m", "b", "e", "r">>
s_path == <<"p", "a", "t", "h">>
s_string == <<"s", "t", "r", "i", "n", "g">>

_is_sentinel(value) == value[1] = "Sentinel"

IsOption(param) == param.cls = "Option"
IsArgument(param) == param.cls = "Argument"

\* list(pt.choices)
ChoiceList(pt) == PyList([i \in 1..Len(pt.choices) |-> PyStr(pt.choices[i])])

\* _infer_type testing for unlimited occurrences before the choice set
_infer_type_array_before_enum(param, type_overrides) ==
    LET name == Or(param.name, PyStr(<<>>))
        pt == param.type
    IN  IF Truthy(type_overrides) /\ name \in DictKeys(type_overrides[2])
        THEN <<DictGet(type_overrides[2], name), None>>
        ELSE IF IsOption(param) /\ param.is_flag
        THEN <<PyStr(s_boolean), None>>
        ELSE IF param.nargs = -1 \/ (IsOption(param) /\ param.multiple)
        THEN <<PyStr(s_array), None>>
        ELSE IF pt.cls = "Choice"
        THEN <<PyStr(s_enum), ChoiceList(pt)>>
        ELSE IF pt.cls \in {"IntParamType", "IntRange"}
        THEN <<PyStr(s_integer), None>>
        ELSE IF pt.cls \in {"FloatParamType", "FloatRange"}
        THEN <<PyStr(s_number), None>>
        ELSE IF pt.cls = "BoolParamType"
        THEN <<PyStr(s_boolean), None>>
        ELSE IF pt.cls = "Path"
        THEN <<PyStr(s_path), None>>
        ELSE IF IsOption(param) /\ param.count
        THEN <<PyStr(s_integer), None>>
        ELSE <<PyStr(s_string), None>>

\* the pair (mtp_type, values)
_infer_type(param, type_overrides) ==
    LET name == Or(param.name, PyStr(<<>>))
        pt == param.type
    IN  IF Truthy(type_overrides) /\ name \in DictKeys(type_overrides[2])
        THEN <<DictGet(type_overrides[2], name), None>>
        ELSE IF IsOption(param) /\ param.is_flag
        THEN <<PyStr(s_boolean), None>>
        ELSE IF pt.cls = "Choice"
        THEN <<PyStr(s_enum), ChoiceList(pt)>>
        ELSE IF param.nargs = -1 \/ (IsOption(param) /\ param.multiple)
        THEN <<PyStr(s_array), None>>
        ELSE IF pt.cls \in {"IntParamType", "IntRange"}
        THEN <<PyStr(s_integer), None>>
        ELSE IF pt.cls \in {"FloatParamType", "FloatRange"}
        THEN <<PyStr(s_number), None>>
        ELSE IF pt.cls = "BoolParamType"
        THEN <<PyStr(s_boolean), None>>
        ELSE IF pt.cls = "Path"
        THEN <<PyStr(s_path), None>>
        ELSE IF IsOption(param) /\ param.count
        THEN <<PyStr(s_integer), None>>
        ELSE <<PyStr(s_string), None>>

\* the reserved names without the self-describe flag
_FILTERED_NAMES_no_describe == {PyStr(s_help), PyStr(s_version)}

_FILTERED_NAMES == {PyStr(s_help), PyStr(s_version), PyStr(s_mtp_describe)}

\* _is_filtered_param without the check of the hidden attribute
_is_filtered_param_no_hidden(param) ==
    Or(param.name, PyStr(<<>>)) \in _FILTERED_NAMES

\* param.hidden holds what getattr(param, "hidden", False) returns
_is_filtered_param(param) ==
    IF Truthy(param.hidden) THEN TRUE
    ELSE IF Or(param.name, PyStr(<<>>)) \in _FILTERED_NAMES THEN TRUE
    ELSE FALSE

\* max(opts, key=len) returning the last of the longest
MaxByLen_last(opts) ==
    opts[CHOOSE i \in 1..Len(opts) :
            /\ \A j \in 1..Len(opts) : Len(opts[j]) <= Len(opts[i])
            /\ \A j \in (i + 1)..Len(opts) : Len(opts[j]) < Len(opts[i])]

\* max(opts, key=len): the first of the longest
MaxByLen(opts) ==
    opts[CHOOSE i \in 1..Len(opts) :
            /\ \A j \in 1..Len(opts) : Len(opts[j]) <= Len(opts[i])
            /\ \A j \in 1..(i - 1) : Len(opts[j]) < Len(opts[i])]

_option_display_name(param) ==
    LET opts == param.opts \o param.secondary_opts
    IN  IF opts # <<>> THEN PyStr(MaxByLen(opts))
        ELSE Or(param.name, PyStr(<<>>))

\* CoerceDefault parsing every textual default, whatever the type
CoerceDefault_any_type(mtp_type, default) ==
    IF IsStr(default)
    THEN IF IntParses(default[2]) THEN PyInt(IntOf(default[2]))
         ELSE IF FloatParses(default[2]) THEN FloatOf(default[2])
         ELSE default
    ELSE default

\* the default that is emitted: a textual default of an integer or number
\* argument is parsed, and kept as it is when the parse fails
CoerceDefault(mtp_type, default) ==
    IF mtp_type \in {PyStr(s_integer), PyStr(s_number)} /\ IsStr(default)
    THEN IF mtp_type = PyStr(s_integer)
         THEN IF IntParses(default[2]) THEN PyInt(IntOf(default[2])) ELSE default
         ELSE IF FloatParses(default[2]) THEN FloatOf(default[2]) ELSE default
    ELSE default

\* the condition of lines 106-111: the default is worth emitting
HasDefault(param) ==
    /\ param.default # None
    /\ param.default # PyTuple(<<>>)
    /\ ~_is_sentinel(param.default)
    /\ ~(IsOption(param) /\ param.is_flag /\ param.default = PyBool(FALSE))

\* if cond: obj.f = v
SetIf(obj, cond, f, v) == IF cond THEN SetField(obj, f, v) ELSE obj

\* lines 82-85: the display name
ArgName(param) ==
    IF IsOption(param) THEN _option_display_name(param)
    ELSE Or(param.name, PyStr(<<>>))

\* lines 87-91: the description, before "if desc"
ArgDesc(param, arg_descriptions) ==
    IF IsOption(param) THEN param.help
    ELSE IF /\ Truthy(arg_descriptions)
            /\ Truthy(param.name)
            /\ param.name \in DictKeys(arg_descriptions[2])
    THEN DictGet(arg_descriptions[2], param.name)
    ELSE None

\* lines 93-122, given (mtp_type, values) and desc
BuildArg(param, inferred, desc) ==
    SetIf(SetIf(SetIf(SetIf(ArgDescriptor(ArgName(param), inferred[1]),
                            Truthy(desc), "description", desc),
                      Truthy(inferred[2]), "values", inferred[2]),
                IsOption(param) \/ IsArgument(param),
                "required", PyBool(param.required)),
          HasDefault(param),
          "default", CoerceDefault(inferred[1], param.default))

_extract_arg(param, type_overrides, arg_descriptions) ==
    BuildArg(param, _infer_type(param, type_overrides),
             ArgDesc(param, arg_descriptions))

\* isinstance(cmd, click.Command): a Group is a Command
IsCommand(cmd) == cmd.cls \in {"Command", "Group"}

\* help_text.strip().split("\n")[0].strip()
FirstLine(s) == Strip(Split(Strip(s), "\n")[1])

\* [f(x) for x in xs]
MapSeq(xs, f(_)) == [i \in 1..Len(xs) |-> f(xs[i])]

\* lines 155-160: the first line of the command's help
ShortHelp(cmd) ==
    LET help_text == IF IsCommand(cmd) THEN Or(cmd.help, PyStr(<<>>))
                     ELSE PyStr(<<>>)
    IN  IF Truthy(help_text) THEN PyStr(FirstLine(help_text[2]))
        ELSE help_text

\* lines 167-172: one ArgDescriptor per parameter that is not filtered
CommandArgs(cmd, type_overrides, arg_descriptions) ==
    IF IsCommand(cmd)
    THEN MapSeq(SelectSeq(cmd.params, LAMBDA p : ~_is_filtered_param(p)),
                LAMBDA p : _extract_arg(p, type_overrides, arg_descriptions))
    ELSE <<>>

IsDashed(a) == StartsWith(a[2].name[2], "-")

\* lines 174-178: positional arguments first, then options
WithArgs(descriptor, args) ==
    IF args # <<>>
    THEN SetField(descriptor, "args",
                  PyList(SelectSeq(args, LAMBDA a : ~IsDashed(a))
                         \o SelectSeq(args, IsDashed)))
    ELSE descriptor

\* annotation.f if annotation else None
AnnField(annotation, f) ==
    IF Truthy(annotation) THEN annotation[2][f] ELSE None

\* WithAnnotation taking stdout from the annotation's stdin
WithAnnotation_stdout_from_stdin(descriptor, annotation) ==
    SetIf(SetIf(SetIf(descriptor,
                      Truthy(AnnField(annotation, "stdin")),
                      "stdin", AnnField(annotation, "stdin")),
                Truthy(AnnField(annotation, "stdin")),
                "stdout", AnnField(annotation, "stdin")),
          Truthy(AnnField(annotation, "examples")),
          "examples", AnnField(annotation, "examples"))

\* lines 180-186
WithAnnotation(descriptor, annotation) ==
    SetIf(SetIf(SetIf(descriptor,
                      Truthy(AnnField(annotation, "stdin")),
                      "stdin", AnnField(annotation, "stdin")),
                Truthy(AnnField(annotation, "stdout")),
                "stdout", AnnField(annotation, "stdout")),
          Truthy(AnnField(annotation, "examples")),
          "examples", AnnField(annotation, "examples"))

_build_command(cmd, name, annotation) ==
    WithAnnotation(
        WithArgs(CommandDescriptor(name, ShortHelp(cmd)),
                 CommandArgs(cmd, AnnField(annotation, "arg_types"),
                             AnnField(annotation, "arg_descriptions"))),
        annotation)

\* VisibleCommands keeping the hidden subcommands
VisibleCommands_with_hidden(cmd) ==
    IF cmd.cls = "Group" THEN cmd.commands ELSE <<>>

\* lines 130-136: the (sn, sub) pairs that are not hidden.  cmd.commands is
\* the sequence of (sn, sub) that list_commands and get_command enumerate;
\* sub.hidden holds what getattr(sub, "hidden", False) returns
VisibleCommands(cmd) ==
    IF cmd.cls = "Group"
    THEN SelectSeq(cmd.commands, LAMBDA c : ~Truthy(c.sub.hidden))
    ELSE <<>>

\* line 141: f"{parent_path} {sn}" if parent_path else sn
SubPath(parent_path, sn) ==
    IF Truthy(parent_path) THEN PyStr(parent_path[2] \o <<" ">> \o sn)
    ELSE PyStr(sn)

\* LeafName naming every leaf by the sentinel
LeafName_always_root(parent_path) == PyStr(s_root)

\* line 146: parent_path or "_root"
LeafName(parent_path) == Or(parent_path, PyStr(s_root))

\* AnnotationFor looking the annotation up by the last name of the path
AnnotationFor_by_last_name(annotations, name) ==
    IF Truthy(annotations)
    THEN DictGet(annotations[2],
                 PyStr(Split(name[2], " ")[Len(Split(name[2], " "))]))
    ELSE None

\* line 147: annotations.get(name) if annotations else None
AnnotationFor(annotations, name) ==
    IF Truthy(annotations) THEN DictGet(annotations[2], name) ELSE None

RECURSIVE _walk_commands(_, _, _)
_walk_commands(cmd, annotations, parent_path) ==
    IF VisibleCommands(cmd) # <<>>
    THEN Concat([i \in 1..Len(VisibleCommands(cmd)) |->
                    _walk_commands(VisibleCommands(cmd)[i].sub, annotations,
                                   SubPath(parent_path,
                                           VisibleCommands(cmd)[i].sn))])
    ELSE <<_build_command(cmd, LeafName(parent_path),
                          AnnotationFor(annotations, LeafName(parent_path)))>>

\* options.f if options else None
OptField(options, f) == IF Truthy(options) THEN options[2][f] ELSE None

\* lines 195-225, with the value given to spec_version as a parameter
AssembleSchema(cli, options, spec_version) ==
    SetIf(ToolSchema(IF IsCommand(cli) THEN Or(cli.name, PyStr(<<>>))
                     ELSE PyStr(<<>>),
                     Or(OptField(options, "version"), PyStr(<<>>)),
                     ShortHelp(cli),
                     spec_version,
                     PyList(_walk_commands(cli, OptField(options, "commands"),
                                           None))),
          Truthy(OptField(options, "auth")),
          "auth", OptField(options, "auth"))

\* generate_schema stamping the caller's version as spec_version when given
generate_schema_caller_version(cli, options) ==
    AssembleSchema(cli, options,
                   Or(OptField(options, "version"), MTP_SPEC_VERSION))

generate_schema(cli, options) ==
    AssembleSchema(cli, options, MTP_SPEC_VERSION)

(***************************************************************************)
(* types.py: to_dict                                                       *)
(***************************************************************************)
\* fields(obj): the field names of each dataclass, in declaration order
Fields(cls) ==
    CASE cls = "Example" -> <<"description", "command", "output">>
      [] cls = "IODescriptor" -> <<"content_type", "description", "schema">>
      [] cls = "ArgDescriptor" ->
            <<"name", "type", "description", "required", "default", "values">>
      [] cls = "CommandDescriptor" ->
            <<"name", "description", "args", "stdin", "stdout", "examples">>
      [] cls = "AuthConfig" -> <<"type", "description", "extra">>
      [] cls = "ToolSchema" ->
            <<"name", "version", "description", "spec_version", "commands",
              "auth">>
      [] cls = "CommandAnnotation" ->
            <<"stdin", "stdout", "examples", "arg_types", "arg_descriptions">>
      [] cls = "DescribeOptions" -> <<"version", "commands", "auth">>

\* the characters of a field name
FieldChars(f) ==
    CASE f = "description" ->
            <<"d", "e", "s", "c", "r", "i", "p", "t", "i", "o", "n">>
      [] f = "command" -> <<"c", "o", "m", "m", "a", "n", "d">>
      [] f = "output" -> <<"o", "u", "t", "p", "u", "t">>
      [] f = "content_type" ->
            <<"c", "o", "n", "t", "e", "n", "t", "_", "t", "y", "p", "e">>
      [] f = "schema" -> <<"s", "c", "h", "e", "m", "a">>
      [] f = "name" -> <<"n", "a", "m", "e">>
      [] f = "type" -> <<"t", "y", "p", "e">>
      [] f = "required" -> <<"r", "e", "q", "u", "i", "r", "e", "d">>
      [] f = "default" -> <<"d", "e", "f", "a", "u", "l", "t">>
      [] f = "values" -> <<"v", "a", "l", "u", "e", "s">>
      [] f = "args" -> <<"a", "r", "g", "s">>
      [] f = "stdin" -> <<"s", "t", "d", "i", "n">>
      [] f = "stdout" -> <<"s", "t", "d", "o", "u", "t">>
      [] f = "examples" -> <<"e", "x", "a", "m", "p", "l", "e", "s">>
      [] f = "extra" -> <<"e", "x", "t", "r", "a">>
      [] f = "version" -> s_version
      [] f = "spec_version" ->
            <<"s", "p", "e", "c", "_", "v", "e", "r", "s", "i", "o", "n">>
      [] f = "commands" -> <<"c", "o", "m", "m", "a", "n", "d", "s">>
      [] f = "auth" -> <<"a", "u", "t", "h">>
      [] f = "arg_types" -> <<"a", "r", "g", "_", "t", "y", "p", "e", "s">>
      [] f = "arg_descriptions" ->
            <<"a", "r", "g", "_", "d", "e", "s", "c", "r", "i", "p", "t", "i",
              "o", "n", "s">>

_snake_to_camel(name) ==
    LET parts == Split(name, "_")
    IN  parts[1] \o Concat(MapSeq(Tail(parts), Capitalize))

\* the merge of extra keeping the value of a key that result already has
RECURSIVE DictUpdate_keep_existing(_, _)
DictUpdate_keep_existing(result, items) ==
    IF items = <<>> THEN result
    ELSE DictUpdate_keep_existing(
             IF Head(items)[1] \in DictKeys(result) THEN result
             ELSE DictSet(result, Head(items)[1], Head(items)[2]),
             Tail(items))

\* for k, v in extra.items(): result[k] = v
RECURSIVE DictUpdate(_, _)
DictUpdate(result, items) ==
    IF items = <<>> THEN result
    ELSE DictUpdate(DictSet(result, Head(items)[1], Head(items)[2]),
                    Tail(items))

RECURSIVE to_dict(_)
RECURSIVE ToDictFields(_, _, _)
\* the loop over fields(obj), lines 83-95
ToDictFields(obj, fs, result) ==
    IF fs = <<>> THEN result
    ELSE LET val == obj[2][Head(fs)]
             key == PyStr(_snake_to_camel(FieldChars(Head(fs))))
             out == IF IsList(val)
                    THEN PyList(MapSeq(val[2], to_dict))
                    ELSE IF IsDataclass(val) THEN to_dict(val)
                    ELSE val
         IN  IF val = None THEN ToDictFields(obj, Tail(fs), result)
             ELSE ToDictFields(obj, Tail(fs), DictSet(result, key, out))

to_dict(obj) ==
    IF IsList(obj) THEN PyList(MapSeq(obj[2], to_dict))
    ELSE IF ~IsDataclass(obj) THEN obj
    ELSE LET result == ToDictFields(obj, Fields(obj[1]), <<>>)
         IN  IF obj[1] = "AuthConfig" /\ Truthy(obj[2].extra)
             THEN PyDict(DictUpdate(DictDel(result,
                                            PyStr(FieldChars("extra"))),
                                    obj[2].extra[2]))
             ELSE PyDict(result)

(***************************************************************************)
(* __init__.py: describe and with_describe                                 *)
(***************************************************************************)
describe(cli, options) == generate_schema(cli, options)

\* a click.Parameter as its constructor leaves it, before keyword arguments
Parameter(cls, name, opts) ==
    [cls |-> cls, name |-> name, opts |-> opts, secondary_opts |-> <<>>,
     type |-> [cls |-> "StringParamType", choices |-> <<>>],
     is_flag |-> FALSE, multiple |-> FALSE, count |-> FALSE, nargs |-> 1,
     hidden |-> PyBool(FALSE), help |-> None, required |-> FALSE,
     default |-> None, is_eager |-> FALSE, expose_value |-> TRUE,
     callback |-> None]

s_opt_mtp_describe == <<"-", "-", "m", "t", "p", "-", "d", "e", "s", "c", "r", "i", "b", "e">>

\* click.Option(["--mtp-describe"], is_flag=True, is_eager=True,
\*              expose_value=False, help=..., callback=_describe_callback);
\* the callback closes over the cli (the root object itself) and options
DescribeOption(options) ==
    [Parameter("Option", PyStr(s_mtp_describe), <<s_opt_mtp_describe>>)
        EXCEPT !.is_flag = TRUE, !.is_eager = TRUE, !.expose_value = FALSE,
               !.type = [cls |-> "BoolParamType", choices |-> <<>>],
               !.default = PyBool(FALSE),
               !.help = PyStr(<<"O", "u", "t", "p", "u", "t", " ", "m", "a", "c", "h", "i", "n", "e", "-", "r", "e", "a", "d", "a", "b", "l", "e", " ", "M", "T", "P", " ", "J", "S", "O", "N", " ", "s", "c", "h", "e", "m", "a">>),
               !.callback = <<"_describe_callback", options>>]

\* the cli after with_describe(cli, options): cli.params.insert(0, ...)
with_describe(cli, options) ==
    IF IsCommand(cli)
    THEN [cli EXCEPT !.params = <<DescribeOption(options)>> \o @]
    ELSE cli

(***************************************************************************)
(* json.dumps(obj, separators=(",", ":")) and click.echo                   *)
(***************************************************************************)
RECURSIVE NatChars(_)
NatChars(n) ==
    IF n < 10 THEN <<DigitChars[n + 1]>>
    ELSE NatChars(n \div 10) \o <<DigitChars[(n % 10) + 1]>>

IntChars(n) == IF n < 0 THEN <<"-">> \o NatChars(-n) ELSE NatChars(n)

\* repr of the float m / 10^e
FloatChars(m, e) ==
    LET a == IF m < 0 THEN -m ELSE m
        whole == a \div Pow10(e)
        frac == a % Pow10(e)
    IN  (IF m < 0 THEN <<"-">> ELSE <<>>) \o NatChars(whole) \o <<".">>
        \o (IF e = 0 THEN <<"0">>
            ELSE SubSeq(<<"0", "0", "0", "0", "0", "0", "0", "0">>, 1,
                        e - Len(NatChars(frac))) \o NatChars(frac))

EscapeChar(c) ==
    CASE c = "\"" -> <<"\\", "\"">>
      [] c = "\\" -> <<"\\", "\\">>
      [] c = "\n" -> <<"\\", "n">>
      [] c = "\r" -> <<"\\", "r">>
      [] c = "\t" -> <<"\\", "t">>
      [] OTHER -> <<c>>

QuoteChars(s) == <<"\"">> \o Concat(MapSeq(s, EscapeChar)) \o <<"\"">>

RECURSIVE JoinChars(_, _)
JoinChars(pieces, sep) ==
    IF pieces = <<>> THEN <<>>
    ELSE IF Len(pieces) = 1 THEN pieces[1]
    ELSE pieces[1] \o sep \o JoinChars(Tail(pieces), sep)

\* a dict key as json.dumps writes it (str, int, bool and None keys)
RECURSIVE Dumps(_)
DumpsKey(k) ==
    IF IsStr(k) THEN QuoteChars(k[2]) ELSE <<"\"">> \o Dumps(k) \o <<"\"">>

Dumps(v) ==
    CASE v[1] = "None" -> <<"n", "u", "l", "l">>
      [] v[1] = "bool" -> IF v[2] THEN <<"t", "r", "u", "e">> ELSE <<"f", "a", "l", "s", "e">>
      [] v[1] = "int" -> IntChars(v[2])
      [] v[1] = "float" -> FloatChars(v[2], v[3])
      [] v[1] = "str" -> QuoteChars(v[2])
      [] v[1] \in {"list", "tuple"} ->
            <<"[">> \o JoinChars(MapSeq(v[2], Dumps), <<",">>) \o <<"]">>
      [] v[1] = "dict" ->
            <<"{">>
            \o JoinChars([i \in 1..Len(v[2]) |->
                            DumpsKey(v[2][i][1]) \o <<":">>
                            \o Dumps(v[2][i][2])],
                         <<",">>)
            \o <<"}">>

\* click.echo(message): the message and a newline
Echo(out, message) == out \o message \o <<"\n">>

(***************************************************************************)
(* The click objects the tests and the example build                       *)
(***************************************************************************)
ParamType(cls) == [cls |-> cls, choices |-> <<>>]
Choice(choices) == [cls |-> "Choice", choices |-> choices]

\* @click.argument("input")
p_input ==
    [Parameter("Argument", PyStr(<<"i", "n", "p", "u", "t">>), <<<<"i", "n", "p", "u", "t">>>>)
        EXCEPT !.required = TRUE]
\* @click.argument("files", nargs=-1)
p_files ==
    [Parameter("Argument", PyStr(<<"f", "i", "l", "e", "s">>), <<<<"f", "i", "l", "e", "s">>>>)
        EXCEPT !.nargs = -1]
\* @click.option("-f", "--format", "fmt", default="json", help="Output format")
p_format ==
    [Parameter("Option", PyStr(<<"f", "m", "t">>), <<<<"-", "f">>, <<"-", "-", "f", "o", "r", "m", "a", "t">>>>)
        EXCEPT !.default = PyStr(<<"j", "s", "o", "n">>), !.help = PyStr(<<"O", "u", "t", "p", "u", "t", " ", "f", "o", "r", "m", "a", "t">>)]
\* @click.option("--pretty", is_flag=True, help="Pretty-print output")
p_pretty ==
    [Parameter("Option", PyStr(<<"p", "r", "e", "t", "t", "y">>), <<<<"-", "-", "p", "r", "e", "t", "t", "y">>>>)
        EXCEPT !.is_flag = TRUE, !.type = ParamType("BoolParamType"),
               !.default = PyBool(FALSE),
               !.help = PyStr(<<"P", "r", "e", "t", "t", "y", "-", "p", "r", "i", "n", "t", " ", "o", "u", "t", "p", "u", "t">>)]
\* @click.option("+w/-w"): a switch with a prefix character other than "-"
p_plus_w ==
    [Parameter("Option", PyStr(<<"w">>), <<<<"+", "w">>>>)
        EXCEPT !.secondary_opts = <<<<"-", "w">>>>, !.is_flag = TRUE,
               !.type = ParamType("BoolParamType"), !.default = PyBool(FALSE)]
\* @click.option("--color", type=click.Choice(["red", "green"]))
p_color ==
    [Parameter("Option", PyStr(<<"c", "o", "l", "o", "r">>), <<<<"-", "-", "c", "o", "l", "o", "r">>>>)
        EXCEPT !.type = Choice(<<<<"r", "e", "d">>, <<"g", "r", "e", "e", "n">>>>)]
\* @click.option("--mode", type=click.Choice([]))
p_mode ==
    [Parameter("Option", PyStr(<<"m", "o", "d", "e">>), <<<<"-", "-", "m", "o", "d", "e">>>>)
        EXCEPT !.type = Choice(<<>>)]
\* @click.option("--secret", hidden=True)
p_secret ==
    [Parameter("Option", PyStr(<<"s", "e", "c", "r", "e", "t">>), <<<<"-", "-", "s", "e", "c", "r", "e", "t">>>>)
        EXCEPT !.hidden = PyBool(TRUE)]
\* @click.help_option()
p_help ==
    [Parameter("Option", PyStr(s_help), <<<<"-", "-", "h", "e", "l", "p">>>>)
        EXCEPT !.is_flag = TRUE, !.is_eager = TRUE, !.expose_value = FALSE,
               !.type = ParamType("BoolParamType"), !.default = PyBool(FALSE),
               !.help = PyStr(<<"S", "h", "o", "w", " ", "t", "h", "i", "s", " ", "m", "e", "s", "s", "a", "g", "e", " ", "a", "n", "d", " ", "e", "x", "i", "t", ".">>)]
\* @click.version_option("1.0.0")
p_version ==
    [Parameter("Option", PyStr(s_version), <<<<"-", "-", "v", "e", "r", "s", "i", "o", "n">>>>)
        EXCEPT !.is_flag = TRUE, !.is_eager = TRUE, !.expose_value = FALSE,
               !.type = ParamType("BoolParamType"), !.default = PyBool(FALSE),
               !.help = PyStr(<<"S", "h", "o", "w", " ", "t", "h", "e", " ", "v", "e", "r", "s", "i", "o", "n", " ", "a", "n", "d", " ", "e", "x", "i", "t", ".">>)]
\* @click.option("--port", type=int, default="8080")
p_port ==
    [Parameter("Option", PyStr(<<"p", "o", "r", "t">>), <<<<"-", "-", "p", "o", "r", "t">>>>)
        EXCEPT !.type = ParamType("IntParamType"),
               !.default = PyStr(<<"8", "0", "8", "0">>)]

ParamPool ==
    {p_input, p_files, p_format, p_pretty, p_plus_w, p_color, p_mode,
     p_secret, p_help, p_version, p_port}

\* a click.Command / click.Group / bare click.BaseCommand object
Node(cls, name, help, params, commands) ==
    [cls |-> cls, name |-> name, help |-> help, hidden |-> PyBool(FALSE),
     params |-> params, commands |-> commands]

Hidden(node) == [node EXCEPT !.hidden = PyBool(TRUE)]

\* an entry of Group.commands: the registered name and the command
Sub(sn, sub) == [sn |-> sn, sub |-> sub]

(***************************************************************************)
(* State: a script builds a cli and its options, may wrap the cli with     *)
(* with_describe, and then either calls describe and to_dict or invokes    *)
(* the cli from the command line.                                          *)
(***************************************************************************)
VARIABLES
    cli,        \* the root command object (its params and commands are mutable)
    cli0,       \* the root command as built, without the inserted options
    options,    \* the DescribeOptions passed to describe and with_describe
    wrapped,    \* how many times with_describe has been applied to cli
    schema,     \* the ToolSchema describe returned, or None
    doc,        \* the mapping to_dict returned, or None
    pc,         \* "build", "described", "serialized", "eager", "body", "exited"
    argv,       \* whether the invocation carries --mtp-describe
    stdout,     \* the characters written to standard output
    exit_code,  \* the exit code of the invocation, or None
    body_runs   \* how many times the command body has been executed

vars ==
    <<cli, cli0, options, wrapped, schema, doc, pc, argv, stdout, exit_code,
      body_runs>>

MaxParams == 3
MaxNodes == 4
MaxWraps == 2
MaxExtra == 2

\* the state before anything is described or run
Start(c, o) ==
    /\ cli = c
    /\ cli0 = c
    /\ options = o
    /\ wrapped = 0
    /\ schema = None
    /\ doc = None
    /\ pc = "build"
    /\ argv = FALSE
    /\ stdout = <<>>
    /\ exit_code = None
    /\ body_runs = 0

\* @click.option / @click.argument on the root command: cmd.params grows
AddParam(p) ==
    /\ pc = "build"
    /\ IsCommand(cli)
    /\ Len(cli0.params) < MaxParams
    /\ \A i \in 1..Len(cli0.params) : cli0.params[i] # p
    /\ cli' = [cli EXCEPT !.params = Append(@, p)]
    /\ cli0' = [cli0 EXCEPT !.params = Append(@, p)]
    /\ UNCHANGED <<options, wrapped, schema, doc, pc, argv, stdout, exit_code,
                   body_runs>>

\* schema = describe(cli, options)
Describe ==
    /\ pc = "build"
    /\ schema' = describe(cli, options)
    /\ pc' = "described"
    /\ UNCHANGED <<cli, cli0, options, wrapped, doc, argv, stdout, exit_code,
                   body_runs>>

\* doc = to_dict(schema)
Serialize ==
    /\ pc = "described"
    /\ doc' = to_dict(schema)
    /\ pc' = "serialized"
    /\ UNCHANGED <<cli, cli0, options, wrapped, schema, argv, stdout,
                   exit_code, body_runs>>

\* with_describe(cli, options)
WithDescribe ==
    /\ pc = "build"
    /\ wrapped < MaxWraps
    /\ cli' = with_describe(cli, options)
    /\ wrapped' = wrapped + 1
    /\ UNCHANGED <<cli0, options, schema, doc, pc, argv, stdout, exit_code,
                   body_runs>>

(***************************************************************************)
(* Arguments of one command: a root command whose parameters are added one *)
(* by one, described under an annotation for "_root".                      *)
(***************************************************************************)
RootAnnotation(arg_types, arg_descriptions) ==
    DescribeOptions(PyStr(<<"1", ".", "0", ".", "0">>),
                    PyDict(<<<<PyStr(s_root),
                               CommandAnnotation(None, None, None, arg_types,
                                                 arg_descriptions)>>>>),
                    None)

ArgsOptionsPool ==
    {None,
     RootAnnotation(None,
                    PyDict(<<<<PyStr(<<"i", "n", "p", "u", "t">>), PyStr(<<"I", "n", "p", "u", "t", " ", "f", "i", "l", "e">>)>>>>)),
     RootAnnotation(PyDict(<<<<PyStr(<<"i", "n", "p", "u", "t">>), PyStr(s_enum)>>,
                             <<PyStr(<<"c", "o", "l", "o", "r">>), PyStr(s_string)>>>>), None),
     RootAnnotation(PyDict(<<<<PyStr(<<"i", "n", "p", "u", "t">>), PyStr(<<"f", "i", "l", "e">>)>>,
                             <<PyStr(<<"f", "m", "t">>), PyStr(s_integer)>>>>), None)}

InitArgs ==
    \E o \in ArgsOptionsPool :
        Start(Node("Command", PyStr(<<"t", "o", "o", "l">>), PyStr(<<"A", " ", "t", "o", "o", "l">>), <<>>, <<>>),
              o)

NextArgs == (\E p \in ParamPool : AddParam(p)) \/ Describe

SpecArgs == InitArgs /\ [][NextArgs]_vars

(***************************************************************************)
(* Claims about the arguments of one command (SpecArgs)                    *)
(***************************************************************************)
\* the args of the i-th emitted command, as a sequence (empty when absent)
ArgsOfCommand(s, i) ==
    LET a == s[2].commands[2][i][2].args
    IN  IF a = None THEN <<>> ELSE a[2]

\* the annotation describe looks up for the root command of SpecArgs
RootAnn == IF Truthy(options) THEN DictGet(options[2].commands[2], PyStr(s_root))
           ELSE None

\* the descriptor the engine builds for parameter p of the root command
RootArg(p) ==
    _extract_arg(p, AnnField(RootAnn, "arg_types"),
                 AnnField(RootAnn, "arg_descriptions"))

\* the condition under which the specification excludes a parameter
Excluded(p) ==
    \/ p.hidden = PyBool(TRUE)
    \/ p.name \in {PyStr(s_help), PyStr(s_version), PyStr(s_mtp_describe)}

Emitted(params) == SelectSeq(params, LAMBDA p : ~Excluded(p))

Count(seq, x) == Cardinality({i \in 1..Len(seq) : seq[i] = x})

\* C2: in the emitted args every positional argument (click.Argument) comes
\* before every flag/option (click.Option), and each of the two groups keeps
\* the declaration order of its parameters: args is the stable partition of
\* the emitted parameters by kind, whatever their display names are.
C2_PositionalsBeforeFlags ==
    pc = "described" =>
        ArgsOfCommand(schema, 1)
            = MapSeq(SelectSeq(Emitted(cli.params), LAMBDA p : ~IsOption(p)),
                     RootArg)
              \o MapSeq(SelectSeq(Emitted(cli.params), IsOption), RootArg)

\* C5: a parameter is left out of args exactly when it is hidden or named
\* help, version or mtp_describe; every other parameter yields exactly one
\* ArgDescriptor, so there are as many args as non-filtered parameters.
C5_FilteredExactly ==
    pc = "described" =>
        /\ Len(ArgsOfCommand(schema, 1)) = Len(Emitted(cli.params))
        /\ \A p \in ParamPool :
               Count(ArgsOfCommand(schema, 1), RootArg(p))
                   = Count(MapSeq(Emitted(cli.params), RootArg), RootArg(p))

\* C5 witness: a described command with a hidden parameter, a reserved one
\* and two that are emitted
C5_Witness ==
    /\ pc = "described"
    /\ Count(cli.params, p_secret) = 1
    /\ Count(cli.params, p_help) = 1
    /\ Len(cli.params) = 3
    /\ Len(ArgsOfCommand(schema, 1)) = 1

\* C6: an emitted ArgDescriptor has values exactly when its type is enum, and
\* then values is the declared choice list of its parameter, in order.
C6_ValuesIffEnum ==
    pc = "described" =>
        \A i \in 1..Len(ArgsOfCommand(schema, 1)) :
            LET a == ArgsOfCommand(schema, 1)[i][2]
            IN  /\ (a.values # None) <=> (a.type = PyStr(s_enum))
                /\ a.type = PyStr(s_enum) =>
                       \E j \in 1..Len(cli.params) :
                           /\ ArgName(cli.params[j]) = a.name
                           /\ a.values = ChoiceList(cli.params[j].type)

MtpTypes ==
    {PyStr(s_boolean), PyStr(s_enum), PyStr(s_array), PyStr(s_integer),
     PyStr(s_number), PyStr(s_path), PyStr(s_string)}

\* C7: the type of every emitted ArgDescriptor is one of boolean, enum,
\* array, integer, number, path, string.
C7_TypeInDomain ==
    pc = "described" =>
        \A i \in 1..Len(ArgsOfCommand(schema, 1)) :
            ArgsOfCommand(schema, 1)[i][2].type \in MtpTypes

(***************************************************************************)
(* Command trees (SpecWalk): a root to which commands and groups are       *)
(* registered one by one, then described.                                  *)
(***************************************************************************)
\* the node reached from node by following the child indexes of path
RECURSIVE NodeAt(_, _)
NodeAt(node, path) ==
    IF path = <<>> THEN node
    ELSE NodeAt(node.commands[Head(path)].sub, Tail(path))

\* the paths of the groups of the tree
RECURSIVE GroupPaths(_)
GroupPaths(node) ==
    IF node.cls # "Group" THEN {}
    ELSE {<<>>}
         \cup UNION {{<<i>> \o q : q \in GroupPaths(node.commands[i].sub)} :
                     i \in 1..Len(node.commands)}

RECURSIVE NodeCount(_)
RECURSIVE NodeCountSeq(_)
NodeCountSeq(entries) ==
    IF entries = <<>> THEN 0
    ELSE NodeCount(Head(entries).sub) + NodeCountSeq(Tail(entries))
NodeCount(node) == 1 + NodeCountSeq(node.commands)

\* group.add_command(sub, name=sn) on the group at path
RECURSIVE AddAt(_, _, _)
AddAt(node, path, entry) ==
    IF path = <<>> THEN [node EXCEPT !.commands = Append(@, entry)]
    ELSE [node EXCEPT !.commands[Head(path)].sub =
                          AddAt(@, Tail(path), entry)]

NamePool == {<<"a">>, <<"b">>, <<"a", " ", "b">>}

\* the commands a script registers: a command, a hidden command, a group,
\* a hidden group
NewCommands(sn) ==
    {Node("Command", PyStr(sn), PyStr(<<"R", "u", "n">>), <<>>, <<>>),
     Hidden(Node("Command", PyStr(sn), PyStr(<<"R", "u", "n">>), <<>>, <<>>)),
     Node("Group", PyStr(sn), None, <<>>, <<>>),
     Hidden(Node("Group", PyStr(sn), None, <<>>, <<>>))}

AddCommand(path, sn, sub) ==
    /\ pc = "build"
    /\ NodeCount(cli0) < MaxNodes
    /\ \A i \in 1..Len(NodeAt(cli0, path).commands) :
           NodeAt(cli0, path).commands[i].sn # sn
    /\ cli' = AddAt(cli, path, Sub(sn, sub))
    /\ cli0' = AddAt(cli0, path, Sub(sn, sub))
    /\ UNCHANGED <<options, wrapped, schema, doc, pc, argv, stdout, exit_code,
                   body_runs>>

InitWalk ==
    \E c \in {Node("Group", PyStr(<<"t", "o", "o", "l">>), PyStr(<<"A", " ", "t", "o", "o", "l">>), <<>>, <<>>),
              Node("Command", PyStr(<<"t", "o", "o", "l">>), PyStr(<<"A", " ", "t", "o", "o", "l">>), <<>>, <<>>)} :
        Start(c, None)

NextWalk ==
    \/ \E path \in GroupPaths(cli0) : \E sn \in NamePool :
           \E sub \in NewCommands(sn) : AddCommand(path, sn, sub)
    \/ Describe

SpecWalk == InitWalk /\ [][NextWalk]_vars

\* the names of the emitted commands, in order
CommandNames(s) == MapSeq(s[2].commands[2], LAMBDA c : c[2].name)

\* C1: no two descriptors of a described schema have the same name.
C1_UniqueNames ==
    pc = "described" =>
        \A i, j \in 1..Len(CommandNames(schema)) :
            i # j => CommandNames(schema)[i] # CommandNames(schema)[j]

(***************************************************************************)
(* Auth configuration (SpecAuth): an AuthConfig whose extra map is filled  *)
(* entry by entry, then described and serialized.                          *)
(***************************************************************************)
ExtraKeys ==
    {PyStr(<<"a", "u", "t", "h", "o", "r", "i", "z", "a", "t", "i", "o", "n", "U", "r", "l">>), PyStr(<<"e", "n", "v", "V", "a", "r">>), PyStr(<<"t", "y", "p", "e">>),
     PyStr(<<"d", "e", "s", "c", "r", "i", "p", "t", "i", "o", "n">>),
     PyStr(<<"e", "x", "t", "r", "a">>)}
ExtraValues == {PyStr(<<"h", "t", "t", "p", "s", ":", "/", "/", "x">>), PyInt(0), None}

\* options.auth.extra[k] = v
PutExtra(k, v) ==
    /\ pc = "build"
    /\ Truthy(OptField(options, "auth"))
    /\ options[2].auth[2].extra # None
    /\ \/ k \in DictKeys(options[2].auth[2].extra[2])
       \/ Len(options[2].auth[2].extra[2]) < MaxExtra
    /\ options' =
           SetField(options, "auth",
                    SetField(options[2].auth, "extra",
                             PyDict(DictSet(options[2].auth[2].extra[2],
                                            k, v))))
    /\ UNCHANGED <<cli, cli0, wrapped, schema, doc, pc, argv, stdout,
                   exit_code, body_runs>>

InitAuth ==
    \E description \in {None, PyStr(<<"O", "A", "u", "t", "h", "2">>)} :
        \E extra \in {None, PyDict(<<>>)} :
            Start(Node("Command", PyStr(<<"t", "o", "o", "l">>), PyStr(<<"A", " ", "t", "o", "o", "l">>), <<>>,
                       <<>>),
                  DescribeOptions(PyStr(<<"1", ".", "0", ".", "0">>), None,
                                  AuthConfig(PyStr(<<"o", "a", "u", "t", "h", "2">>), description,
                                             extra)))

NextAuth ==
    \/ \E k \in ExtraKeys : \E v \in ExtraValues : PutExtra(k, v)
    \/ Describe
    \/ Serialize

SpecAuth == InitAuth /\ [][NextAuth]_vars

\* some key of a mapping in v, at any depth, is mapped to None
RECURSIVE HasNull(_)
HasNull(v) ==
    CASE v[1] = "dict" ->
            \E i \in 1..Len(v[2]) : v[2][i][2] = None \/ HasNull(v[2][i][2])
      [] v[1] = "list" -> \E i \in 1..Len(v[2]) : HasNull(v[2][i])
      [] OTHER -> FALSE

\* C8: the mapping to_dict returns for a schema maps no key to null, in the
\* schema object, its commands and arguments, and its auth object with the
\* keys merged from extra.
C8_NoNullValues == pc = "serialized" => ~HasNull(doc)

\* the auth object of the serialized schema, as its items
AuthItems == DictGet(doc[2], PyStr(FieldChars("auth")))[2]

\* C9: the serialized auth object has no key named extra, and every
\* key/value pair of the extra map is a key/value pair of the auth object
\* itself, once.
C9_ExtraFlattened ==
    pc = "serialized" =>
        /\ PyStr(FieldChars("extra")) \notin DictKeys(AuthItems)
        /\ options[2].auth[2].extra # None =>
               \A i \in 1..Len(options[2].auth[2].extra[2]) :
                   LET kv == options[2].auth[2].extra[2][i]
                   IN  Count(AuthItems, kv) = 1

(***************************************************************************)
(* Activation (Spec): the cli of a test or of the example is wrapped with  *)
(* with_describe and then described, or invoked from the command line.     *)
(***************************************************************************)
\* what the callback leaves: the output so far and the exit code, None when
\* the callback returned
CallbackResult(out, code) == [out |-> out, code |-> code]

\* _describe_callback without ctx.exit(0)
_describe_callback_no_exit(c, o, value, out) ==
    IF ~value THEN CallbackResult(out, None)
    ELSE CallbackResult(Echo(out, Dumps(to_dict(describe(c, o)))), None)

\* _describe_callback(ctx, param, value), closed over cli c and options o
_describe_callback(c, o, value, out) ==
    IF ~value THEN CallbackResult(out, None)
    ELSE CallbackResult(Echo(out, Dumps(to_dict(describe(c, o)))), PyInt(0))

\* the callbacks of the eager parameters, in order, until one exits; the
\* value of an --mtp-describe flag is whether argv carries it
RECURSIVE RunEager(_, _, _, _)
RunEager(params, c, value, out) ==
    IF params = <<>> THEN CallbackResult(out, None)
    ELSE IF Head(params).is_eager
            /\ Head(params).callback[1] = "_describe_callback"
    THEN LET r == _describe_callback(c, Head(params).callback[2], value, out)
         IN  IF r.code # None THEN r
             ELSE RunEager(Tail(params), c, value, r.out)
    ELSE RunEager(Tail(params), c, value, out)

\* the cli registers an --mtp-describe option
HasDescribeFlag(c) ==
    \E i \in 1..Len(c.params) :
        \E j \in 1..Len(c.params[i].opts) :
            c.params[i].opts[j] = s_opt_mtp_describe

\* what the body of the command writes
BodyOutput == <<"H", "e", "l", "l", "o", ",", " ", "W", "o", "r", "l", "d", "!">>

\* cli(argv): click parses the command line; the flag can only be given
\* when it is registered
Invoke(flag) ==
    /\ pc = "build"
    /\ flag => HasDescribeFlag(cli)
    /\ argv' = flag
    /\ pc' = "eager"
    /\ UNCHANGED <<cli, cli0, options, wrapped, schema, doc, stdout,
                   exit_code, body_runs>>

\* click calls the callbacks of the eager parameters before anything else
EagerCallbacks ==
    /\ pc = "eager"
    /\ LET r == RunEager(cli.params, cli, argv, stdout)
       IN  /\ stdout' = r.out
           /\ exit_code' = r.code
           /\ pc' = IF r.code # None THEN "exited" ELSE "body"
    /\ UNCHANGED <<cli, cli0, options, wrapped, schema, doc, argv, body_runs>>

\* the command body (or the subcommand the group dispatches to) runs and
\* the process exits normally
RunBody ==
    /\ pc = "body"
    /\ body_runs' = body_runs + 1
    /\ stdout' = Echo(stdout, BodyOutput)
    /\ exit_code' = PyInt(0)
    /\ pc' = "exited"
    /\ UNCHANGED <<cli, cli0, options, wrapped, schema, doc, argv>>

\* @click.argument("name")
p_name ==
    [Parameter("Argument", PyStr(<<"n", "a", "m", "e">>), <<<<"n", "a", "m", "e">>>>)
        EXCEPT !.required = TRUE]
\* @click.option("--loud", is_flag=True, help="Shout the greeting")
p_loud ==
    [Parameter("Option", PyStr(<<"l", "o", "u", "d">>), <<<<"-", "-", "l", "o", "u", "d">>>>)
        EXCEPT !.is_flag = TRUE, !.type = ParamType("BoolParamType"),
               !.default = PyBool(FALSE),
               !.help = PyStr(<<"S", "h", "o", "u", "t", " ", "t", "h", "e", " ", "g", "r", "e", "e", "t", "i", "n", "g">>)]
\* @click.option("--strict", is_flag=True, help="Enable strict validation mode")
p_strict ==
    [Parameter("Option", PyStr(<<"s", "t", "r", "i", "c", "t">>), <<<<"-", "-", "s", "t", "r", "i", "c", "t">>>>)
        EXCEPT !.is_flag = TRUE, !.type = ParamType("BoolParamType"),
               !.default = PyBool(FALSE),
               !.help = PyStr(<<"E", "n", "a", "b", "l", "e", " ", "s", "t", "r", "i", "c", "t", " ", "v", "a", "l", "i", "d", "a", "t", "i", "o", "n", " ", "m", "o", "d", "e">>)]

\* examples/filetool.py: a group with the commands convert and validate
cli_filetool ==
    Node("Group", PyStr(<<"f", "i", "l", "e", "t", "o", "o", "l">>),
         PyStr(<<"C", "o", "n", "v", "e", "r", "t", " ", "a", "n", "d", " ", "v", "a", "l", "i", "d", "a", "t", "e", " ", "f", "i", "l", "e", "s", " ", "b", "e", "t", "w", "e", "e", "n", " ", "f", "o", "r", "m", "a", "t", "s">>), <<>>,
         <<Sub(<<"c", "o", "n", "v", "e", "r", "t">>,
               Node("Command", PyStr(<<"c", "o", "n", "v", "e", "r", "t">>),
                    PyStr(<<"C", "o", "n", "v", "e", "r", "t", " ", "a", " ", "f", "i", "l", "e", " ", "f", "r", "o", "m", " ", "o", "n", "e", " ", "f", "o", "r", "m", "a", "t", " ", "t", "o", " ", "a", "n", "o", "t", "h", "e", "r">>),
                    <<p_input, p_format, p_pretty>>, <<>>)),
           Sub(<<"v", "a", "l", "i", "d", "a", "t", "e">>,
               Node("Command", PyStr(<<"v", "a", "l", "i", "d", "a", "t", "e">>),
                    PyStr(<<"C", "h", "e", "c", "k", " ", "i", "f", " ", "a", " ", "f", "i", "l", "e", " ", "i", "s", " ", "w", "e", "l", "l", "-", "f", "o", "r", "m", "e", "d", " ", "a", "n", "d", " ", "v", "a", "l", "i", "d">>),
                    <<p_input, p_strict>>, <<>>))>>)

\* a single command
cli_greet ==
    Node("Command", PyStr(<<"g", "r", "e", "e", "t">>), PyStr(<<"G", "r", "e", "e", "t", " ", "s", "o", "m", "e", "o", "n", "e">>),
         <<p_name, p_loud>>, <<>>)

\* a single command without parameters
cli_tool == Node("Command", PyStr(<<"t", "o", "o", "l">>), PyStr(<<"A", " ", "t", "o", "o", "l">>), <<>>, <<>>)

\* a group whose only command is hidden, with an option of its own
cli_admin ==
    Node("Group", PyStr(<<"a", "d", "m", "i", "n">>), PyStr(<<"\n", " ", " ", "A", "d", "m", "i", "n", " ", "t", "o", "o", "l", "\n", " ", " ", "I", "n", "t", "e", "r", "n", "a", "l", ".", "\n">>),
         <<p_format>>,
         <<Sub(<<"i", "n", "t", "e", "r", "n", "a", "l">>,
               Hidden(Node("Command", PyStr(<<"i", "n", "t", "e", "r", "n", "a", "l">>), None, <<>>,
                           <<>>)))>>)

\* a click.BaseCommand that is not a click.Command
cli_base == Node("BaseCommand", PyStr(<<"b", "a", "s", "e">>), None, <<>>, <<>>)

CliPool == {cli_filetool, cli_greet, cli_tool, cli_admin, cli_base}

\* the DescribeOptions of examples/filetool.py, with an auth configuration
options_filetool ==
    DescribeOptions(
        PyStr(<<"1", ".", "2", ".", "0">>),
        PyDict(<<<<PyStr(<<"c", "o", "n", "v", "e", "r", "t">>),
                   CommandAnnotation(
                       IODescriptor(PyStr(<<"t", "e", "x", "t", "/", "p", "l", "a", "i", "n">>),
                                    PyStr(<<"R", "a", "w", " ", "i", "n", "p", "u", "t", " ", "d", "a", "t", "a">>), None),
                       IODescriptor(PyStr(<<"a", "p", "p", "l", "i", "c", "a", "t", "i", "o", "n", "/", "j", "s", "o", "n">>), None, None),
                       PyList(<<Example(PyStr(<<"C", "o", "n", "v", "e", "r", "t", " ", "a", " ", "C", "S", "V", " ", "f", "i", "l", "e", " ", "t", "o", " ", "J", "S", "O", "N">>),
                                        PyStr(<<"f", "i", "l", "e", "t", "o", "o", "l", " ", "c", "o", "n", "v", "e", "r", "t", " ", "d", "a", "t", "a", ".", "c", "s", "v">>),
                                        None)>>),
                       None,
                       PyDict(<<<<PyStr(<<"i", "n", "p", "u", "t">>),
                                  PyStr(<<"I", "n", "p", "u", "t", " ", "f", "i", "l", "e", " ", "p", "a", "t", "h">>)>>>>))>>>>),
        AuthConfig(PyStr(<<"a", "p", "i", "-", "k", "e", "y">>), PyStr(<<"A", "P", "I", " ", "k", "e", "y", " ", "a", "u", "t", "h">>),
                   PyDict(<<<<PyStr(<<"e", "n", "v", "V", "a", "r">>),
                              PyStr(<<"T", "O", "O", "L", "_", "A", "P", "I", "_", "K", "E", "Y">>)>>>>)))

OptionsPool ==
    {None,
     DescribeOptions(None, None, None),
     DescribeOptions(PyStr(<<>>), PyDict(<<>>), None),
     DescribeOptions(PyStr(<<"1", ".", "0", ".", "0">>), None, None),
     options_filetool}

Init == \E c \in CliPool : \E o \in OptionsPool : Start(c, o)

Next ==
    \/ WithDescribe
    \/ Describe
    \/ Serialize
    \/ \E flag \in BOOLEAN : Invoke(flag)
    \/ EagerCallbacks
    \/ RunBody

Spec == Init /\ [][Next]_vars

(***************************************************************************)
(* Claims about the activation flag and the assembled schema (Spec)        *)
(***************************************************************************)
\* C3: once with_describe has been applied, describe returns the schema it
\* returns for the command as it was before, and no command of that schema
\* has an argument named --mtp-describe.
C3_DescribeFlagNotInSchema ==
    (pc = "described" /\ wrapped >= 1) =>
        /\ schema = describe(cli0, options)
        /\ \A i \in 1..Len(schema[2].commands[2]) :
               \A j \in 1..Len(ArgsOfCommand(schema, i)) :
                   ArgsOfCommand(schema, i)[j][2].name
                       # PyStr(s_opt_mtp_describe)

\* C3 witness: a single command with two parameters, wrapped twice and then
\* described
C3_Witness ==
    /\ pc = "described"
    /\ wrapped = 2
    /\ cli0 = cli_greet
    /\ Len(cli.params) = 4
    /\ Len(ArgsOfCommand(schema, 1)) = 2

C10_SpecVersionFixed ==
    pc \in {"described", "serialized"} =>
        /\ schema[2].spec_version = PyStr(<<"2", "0", "2", "6", "-", "0", "2", "-", "0", "7">>)
        /\ OptField(options, "version") = None =>
               schema[2].version = PyStr(<<>>)

\* C10 witness: described with options that carry a version, commands and auth
C10_Witness ==
    /\ pc = "described"
    /\ options = options_filetool
    /\ schema[2].version = PyStr(<<"1", ".", "2", ".", "0">>)


(***************************************************************************)
(* One parameter (SpecParam): a root command with a single parameter drawn *)
(* from the combinations of attributes that _infer_type and _extract_arg   *)
(* read, described under an annotation for "_root".                        *)
(***************************************************************************)
\* the declared types: the ones _infer_type recognises, a plain string type
\* and one it does not know (click.File)
TypePool ==
    {Choice(<<<<"r", "e", "d">>, <<"g", "r", "e", "e", "n">>>>), ParamType("IntParamType"),
     ParamType("IntRange"), ParamType("FloatParamType"),
     ParamType("FloatRange"), ParamType("BoolParamType"), ParamType("Path"),
     ParamType("StringParamType"), ParamType("File")}

\* the values of param.default
DefaultPool ==
    {None, Sentinel, PyTuple(<<>>), PyList(<<>>), PyTuple(<<PyStr(<<"a">>)>>),
     PyBool(FALSE), PyBool(TRUE), PyInt(0), PyInt(5), PyStr(<<>>),
     PyStr(<<"8", "0", "8", "0">>), PyStr(<<"-", "3">>), PyStr(<<" ", "7", " ">>), PyStr(<<"0", ".", "5">>),
     PyStr(<<"j", "s", "o", "n">>)}

\* click.Option(["--x"], ...): is_flag, multiple and count exclude each other
\* and an option has no nargs=-1
OptionShapes ==
    {[Parameter("Option", PyStr(<<"x">>), <<<<"-", "-", "x">>>>)
         EXCEPT !.is_flag = f, !.multiple = m, !.count = c, !.nargs = n] :
     f \in BOOLEAN, m \in BOOLEAN, c \in BOOLEAN, n \in {1, 2}}

ValidOption(p) ==
    /\ ~(p.is_flag /\ p.multiple)
    /\ ~(p.count /\ p.multiple)
    /\ ~(p.count /\ p.is_flag)

\* click.Argument(["x"], ...)
ArgumentShapes ==
    {[Parameter("Argument", PyStr(<<"x">>), <<<<"x">>>>)
         EXCEPT !.nargs = n, !.required = (n # -1)] : n \in {1, -1}}

ParamShapes == {p \in OptionShapes : ValidOption(p)} \cup ArgumentShapes

\* the opts and secondary_opts of an option: "-f", "--format" in both
\* orders, aliases of equal length, an on/off switch
OptsPool ==
    {<<<<"-", "f">>, <<"-", "-", "f", "o", "r", "m", "a", "t">>>>,
     <<<<"-", "-", "f", "o", "r", "m", "a", "t">>, <<"-", "f">>>>,
     <<<<"-", "-", "a", "a">>, <<"-", "-", "b", "b">>>>,
     <<<<"-", "a">>, <<"-", "b">>, <<"-", "c">>>>,
     <<<<"-", "-", "s", "h", "o", "u", "t">>>>}
SecondaryOptsPool ==
    {<<>>, <<<<"-", "-", "n", "o", "-", "s", "h", "o", "u", "t">>>>,
     <<<<"-", "-", "q", "u", "i", "e", "t">>>>}

\* options that differ in their aliases (one with secondary aliases is an
\* on/off flag), arguments that differ in their name
AliasShapes ==
    {[Parameter("Option", PyStr(<<"v">>), opts)
         EXCEPT !.secondary_opts = secondary,
                !.is_flag = (secondary # <<>>),
                !.type = IF secondary # <<>> THEN ParamType("BoolParamType")
                         ELSE ParamType("StringParamType"),
                !.default = IF secondary # <<>> THEN PyBool(FALSE)
                            ELSE None] :
     opts \in OptsPool, secondary \in SecondaryOptsPool}
    \cup {[Parameter("Argument", PyStr(name), <<name>>)
              EXCEPT !.required = TRUE] :
           name \in {<<"i", "n", "p", "u", "t">>,
                     <<"i", "n", "p", "u", "t", "_", "f", "i", "l", "e">>,
                     <<"f", "i", "l", "e", "s">>}}

ParamSpace ==
    {[p EXCEPT !.type = t, !.default = d] :
     p \in ParamShapes, t \in TypePool, d \in DefaultPool}
    \cup AliasShapes

\* arg_types of the annotation: none, empty, for x, for another parameter
ParamOptionsPool ==
    {None,
     RootAnnotation(PyDict(<<>>), None),
     RootAnnotation(PyDict(<<<<PyStr(<<"x">>), PyStr(s_integer)>>>>), None),
     RootAnnotation(PyDict(<<<<PyStr(<<"x">>), PyStr(s_number)>>>>), None),
     RootAnnotation(PyDict(<<<<PyStr(<<"x">>), PyStr(s_string)>>>>), None),
     RootAnnotation(PyDict(<<<<PyStr(<<"y">>), PyStr(s_integer)>>>>), None)}

InitParam ==
    \E p \in ParamSpace : \E o \in ParamOptionsPool :
        Start(Node("Command", PyStr(<<"t", "o", "o", "l">>), PyStr(<<"A", " ", "t", "o", "o", "l">>), <<p>>, <<>>),
              o)

NextParam == Describe \/ Serialize

SpecParam == InitParam /\ [][NextParam]_vars

(***************************************************************************)
(* Claims about one parameter (SpecParam)                                  *)
(***************************************************************************)
\* the parameter of the root command and the descriptor emitted for it
TheParam == cli.params[1]
TheArg == ArgsOfCommand(schema, 1)[1][2]

\* what int() and float() make of the textual defaults of DefaultPool
\* (absent: the parse fails)
IntTable ==
    {<<<<"8", "0", "8", "0">>, PyInt(8080)>>, <<<<"-", "3">>, PyInt(-3)>>, <<<<" ", "7", " ">>, PyInt(7)>>}
FloatTable ==
    {<<<<"8", "0", "8", "0">>, PyFloat(8080, 0)>>, <<<<"-", "3">>, PyFloat(-3, 0)>>,
     <<<<" ", "7", " ">>, PyFloat(7, 0)>>, <<<<"0", ".", "5">>, PyFloat(5, 1)>>}

\* the entry of a table for text s, or the text itself when it has none
Parsed(table, s) ==
    IF \E e \in table : e[1] = s
    THEN (CHOOSE e \in table : e[1] = s)[2]
    ELSE PyStr(s)

\* C11: a textual default is emitted as an integer when the argument's type
\* is integer and the text parses as one, as a float when the type is number
\* and the text parses as one, and as the unchanged text in every other case:
\* when the parse fails, and whenever the type is anything else.
C11_NumericCoercion ==
    (pc = "described" /\ IsStr(TheParam.default)) =>
        TheArg.default =
            CASE TheArg.type = PyStr(s_integer) ->
                     Parsed(IntTable, TheParam.default[2])
              [] TheArg.type = PyStr(s_number) ->
                     Parsed(FloatTable, TheParam.default[2])
              [] OTHER -> TheParam.default

\* C11 witness: a described option of type integer whose textual default
\* does not parse as an integer and is emitted as the text it was
C11_Witness ==
    /\ pc = "described"
    /\ TheParam.default = PyStr(<<"0", ".", "5">>)
    /\ TheArg.type = PyStr(s_integer)
    /\ TheArg.default = PyStr(<<"0", ".", "5">>)

(***************************************************************************)
(* Annotations (SpecAnn): a command tree described under an annotation map *)
(* that the caller fills entry by entry.                                   *)
(***************************************************************************)
\* a group "a" (a visible command "b", a hidden command "c") and a command "d"
tree_nested ==
    Node("Group", PyStr(<<"t", "o", "o", "l">>), PyStr(<<"A", " ", "t", "o", "o", "l">>), <<>>,
         <<Sub(<<"a">>,
               Node("Group", PyStr(<<"a">>), PyStr(<<"G", "r", "o", "u", "p", " ", "a">>), <<>>,
                    <<Sub(<<"b">>, Node("Command", PyStr(<<"b">>), PyStr(<<"R", "u", "n", " ", "b">>),
                                      <<p_format, p_input>>, <<>>)),
                      Sub(<<"c">>, Hidden(Node("Command", PyStr(<<"c">>),
                                             PyStr(<<"R", "u", "n", " ", "c">>), <<>>, <<>>)))>>)),
           Sub(<<"d">>, Node("Command", PyStr(<<"d">>), PyStr(<<"R", "u", "n", " ", "d">>),
                           <<p_input>>, <<>>))>>)

\* a single command with an argument
tree_single ==
    Node("Command", PyStr(<<"t", "o", "o", "l">>), PyStr(<<"A", " ", "t", "o", "o", "l">>), <<p_input>>, <<>>)

\* a group whose only command is hidden
tree_hidden_only ==
    Node("Group", PyStr(<<"t", "o", "o", "l">>), PyStr(<<"A", " ", "t", "o", "o", "l">>), <<p_input>>,
         <<Sub(<<"a">>, Hidden(Node("Command", PyStr(<<"a">>), PyStr(<<"R", "u", "n", " ", "a">>),
                                  <<>>, <<>>)))>>)

TreePool == {tree_nested, tree_single, tree_hidden_only}

\* the keys a caller gives to annotations: command paths, the path of a
\* group, of a hidden command, a bare last name, and the root sentinel
AnnotationKeys ==
    {PyStr(s_root), PyStr(<<"a">>), PyStr(<<"a", " ", "b">>), PyStr(<<"b">>), PyStr(<<"d">>),
     PyStr(<<"a", " ", "c">>)}

io_text == IODescriptor(PyStr(<<"t", "e", "x", "t", "/", "p", "l", "a", "i", "n">>), PyStr(<<"R", "a", "w", " ", "i", "n", "p", "u", "t", " ", "d", "a", "t", "a">>), None)
io_json == IODescriptor(PyStr(<<"a", "p", "p", "l", "i", "c", "a", "t", "i", "o", "n", "/", "j", "s", "o", "n">>), None, None)
example_run == Example(PyStr(<<"R", "u", "n", " ", "i", "t">>), PyStr(<<"t", "o", "o", "l", " ", "r", "u", "n", " ", "x">>), None)

AnnotationPool ==
    {CommandAnnotation(io_text, None, None, None, None),
     CommandAnnotation(None, io_json, PyList(<<example_run>>), None, None),
     CommandAnnotation(None, None, PyList(<<>>), None, None),
     CommandAnnotation(None, None, None,
                       PyDict(<<<<PyStr(<<"i", "n", "p", "u", "t">>), PyStr(s_path)>>>>),
                       PyDict(<<<<PyStr(<<"i", "n", "p", "u", "t">>), PyStr(<<"I", "n", "p", "u", "t", " ", "f", "i", "l", "e">>)>>>>))}

MaxAnnotations == 2

\* the annotation map of the options, as items
Annotations ==
    IF Truthy(OptField(options, "commands")) THEN options[2].commands[2]
    ELSE <<>>

\* commands[k] = annotation, before DescribeOptions(commands=commands)
PutAnnotation(k, annotation) ==
    /\ pc = "build"
    /\ \/ k \in DictKeys(Annotations)
       \/ Len(Annotations) < MaxAnnotations
    /\ options' = SetField(options, "commands",
                           PyDict(DictSet(Annotations, k, annotation)))
    /\ UNCHANGED <<cli, cli0, wrapped, schema, doc, pc, argv, stdout,
                   exit_code, body_runs>>

InitAnn ==
    \E c \in TreePool :
        Start(c, DescribeOptions(PyStr(<<"1", ".", "0", ".", "0">>), None, None))

NextAnn ==
    \/ \E k \in AnnotationKeys : \E a \in AnnotationPool : PutAnnotation(k, a)
    \/ Describe
    \/ Serialize

SpecAnn == InitAnn /\ [][NextAnn]_vars

(***************************************************************************)
(* Claims about annotations (SpecAnn)                                      *)
(***************************************************************************)
\* the options with only the annotations whose key is the name of an emitted
\* command of schema s
WithoutUnused(o, s) ==
    SetField(o, "commands",
             PyDict(SelectSeq(Annotations,
                              LAMBDA it :
                                  \E i \in 1..Len(CommandNames(s)) :
                                      CommandNames(s)[i] = it[1])))

\* C12: the entries of the annotation map whose key is not the path of an
\* emitted command (the path of a group with visible children, of a hidden
\* command, a bare last name) are unused: describe returns a schema, and it
\* is the schema it returns for the map without those entries.
C12_UnusedAnnotationsIgnored ==
    pc = "described" =>
        /\ schema[1] = "ToolSchema"
        /\ schema = describe(cli, WithoutUnused(options, schema))

\* C12 witness: the nested tree described under an annotation for the group
\* path "a" and one for the bare name "b", neither of which is emitted
C12_Witness ==
    /\ pc = "described"
    /\ cli = tree_nested
    /\ DictKeys(Annotations) = {PyStr(<<"a">>), PyStr(<<"b">>)}
    /\ CommandNames(schema) = <<PyStr(<<"a", " ", "b">>), PyStr(<<"d">>)>>
    /\ WithoutUnused(options, schema)[2].commands = PyDict(<<>>)

(***************************************************************************)
(* Claims about the walker (SpecWalk)                                      *)
(***************************************************************************)
\* the paths (child indexes from the root) of all the nodes of a tree
RECURSIVE TreePaths(_)
TreePaths(node) ==
    {<<>>}
    \cup UNION {{<<i>> \o q : q \in TreePaths(node.commands[i].sub)} :
                i \in 1..Len(node.commands)}

\* no node on the path, below the root, is hidden
PathVisible(root, path) ==
    \A k \in 1..Len(path) : ~Truthy(NodeAt(root, SubSeq(path, 1, k)).hidden)

HasVisibleChild(node) ==
    /\ node.cls = "Group"
    /\ \E i \in 1..Len(node.commands) : ~Truthy(node.commands[i].sub.hidden)

\* the leaves reachable through visible children only: nodes that are not a
\* group, or groups without a visible child
LeafPaths(root) ==
    {path \in TreePaths(root) :
        PathVisible(root, path) /\ ~HasVisibleChild(NodeAt(root, path))}

\* p comes before q in a depth-first traversal in enumeration order
PathBefore(p, q) ==
    \E k \in 1..Len(p) :
        /\ k <= Len(q)
        /\ SubSeq(p, 1, k - 1) = SubSeq(q, 1, k - 1)
        /\ p[k] < q[k]

RECURSIVE DepthFirst(_)
DepthFirst(paths) ==
    IF paths = {} THEN <<>>
    ELSE LET first == CHOOSE p \in paths :
                          \A q \in paths \ {p} : PathBefore(p, q)
         IN  <<first>> \o DepthFirst(paths \ {first})

\* the child names along a path, joined by single spaces
PathName(root, path) ==
    JoinChars([k \in 1..Len(path) |->
                  NodeAt(root, SubSeq(path, 1, k - 1)).commands[path[k]].sn],
              <<" ">>)

NameOfLeaf(root, path) ==
    IF path = <<>> THEN PyStr(s_root) ELSE PyStr(PathName(root, path))

RootOverrides == AnnField(RootAnn, "arg_types")

OverridePresent ==
    /\ RootOverrides # None
    /\ RootOverrides # PyDict(<<>>)
    /\ TheParam.name \in DictKeys(RootOverrides[2])

\* the rules of the claim, in order: <<the rule matches, the type it gives>>
TypeRules ==
    <<<<OverridePresent,
        IF OverridePresent THEN DictGet(RootOverrides[2], TheParam.name)
        ELSE None>>,
      <<TheParam.cls = "Option" /\ TheParam.is_flag, PyStr(s_boolean)>>,
      <<TheParam.type.cls = "Choice", PyStr(s_enum)>>,
      <<TheParam.nargs = -1 \/ (TheParam.cls = "Option" /\ TheParam.multiple),
        PyStr(s_array)>>,
      <<TheParam.type.cls \in {"IntParamType", "IntRange"}, PyStr(s_integer)>>,
      <<TheParam.type.cls \in {"FloatParamType", "FloatRange"},
        PyStr(s_number)>>,
      <<TheParam.type.cls = "BoolParamType", PyStr(s_boolean)>>,
      <<TheParam.type.cls = "Path", PyStr(s_path)>>,
      <<TheParam.cls = "Option" /\ TheParam.count, PyStr(s_integer)>>,
      <<TRUE, PyStr(s_string)>>>>

\* the type of the first rule that matches
FirstMatch ==
    TypeRules[CHOOSE i \in 1..Len(TypeRules) :
                 /\ TypeRules[i][1]
                 /\ \A j \in 1..(i - 1) : ~TypeRules[j][1]][2]

\* C15: for every combination of override, flag, choice set, unlimited
\* occurrences, declared type and counter, the type of the descriptor is the
\* type of the first matching rule in the order override, flag, choice set,
\* unlimited occurrences, integer, float, boolean, path, counter, string; a
\* descriptor is produced for every combination.
C15_FirstMatchingRule ==
    pc = "described" =>
        /\ Len(ArgsOfCommand(schema, 1)) = 1
        /\ TheArg.type = FirstMatch

\* C15 witness: a multiple option whose type is a choice set, without an
\* override: the choice rule comes before the unlimited-occurrences rule
C15_Witness ==
    /\ pc = "described"
    /\ TheParam.cls = "Option"
    /\ TheParam.multiple
    /\ TheParam.type.cls = "Choice"
    /\ ~OverridePresent
    /\ TheArg.type = PyStr(s_enum)

\* a collection without elements, of any kind
EmptyCollection(v) == v[1] \in {"tuple", "list", "dict"} /\ v[2] = <<>>

\* C16: the descriptor carries a default if and only if the parameter's
\* default is not None, not an empty collection of any kind, not the
\* framework's sentinel and not False on a boolean flag; 0, the empty string
\* and False on a parameter that is not a flag are emitted.
C16_DefaultIff ==
    pc = "described" =>
        ((TheArg.default # None)
         <=> /\ TheParam.default # None
             /\ ~EmptyCollection(TheParam.default)
             /\ TheParam.default # Sentinel
             /\ ~(TheParam.cls = "Option" /\ TheParam.is_flag
                  /\ TheParam.default = PyBool(FALSE)))

\* the aliases click registers for an option
Aliases(param) == param.opts \o param.secondary_opts

\* C17: the display name of an option is one of its aliases, no alias is
\* longer, and no alias before it is as long; the display name of an
\* argument is its name.
C17_DisplayName ==
    pc = "described" =>
        IF TheParam.cls = "Option"
        THEN \E i \in 1..Len(Aliases(TheParam)) :
                 /\ TheArg.name = PyStr(Aliases(TheParam)[i])
                 /\ \A j \in 1..Len(Aliases(TheParam)) :
                        Len(Aliases(TheParam)[j]) <= Len(Aliases(TheParam)[i])
                 /\ \A j \in 1..(i - 1) :
                        Len(Aliases(TheParam)[j]) < Len(Aliases(TheParam)[i])
        ELSE TheArg.name = TheParam.name

\* C17 witness: an option with the aliases --aa and --bb, of equal length,
\* is displayed as the first, --aa
C17_Witness ==
    /\ pc = "described"
    /\ TheParam.opts = <<<<"-", "-", "a", "a">>, <<"-", "-", "b", "b">>>>
    /\ TheParam.secondary_opts = <<>>
    /\ TheArg.name = PyStr(<<"-", "-", "a", "a">>)

\* the i-th emitted command of schema s
CommandAt(s, i) == s[2].commands[2][i]

\* the annotation keyed exactly by path p, or None
AnnotationAt(p) == DictGet(Annotations, p)

\* the options with the annotation keyed by p as the only one
OnlyKey(o, p) ==
    SetField(o, "commands",
             PyDict(SelectSeq(Annotations, LAMBDA it : it[1] = p)))

\* the annotations keyed by other paths change nothing of the i-th command
OthersChangeNothing(i) ==
    CommandAt(schema, i)
        = CommandAt(describe(cli, OnlyKey(options, CommandAt(schema, i)[2].name)),
                    i)

\* C18 as stated: stdin, stdout and examples of each emitted command are the
\* values its own annotation holds for them (absent when it holds none or
\* there is no annotation for the path), an empty list of examples included,
\* and the annotations keyed by other paths change nothing of the command.
C18_AnnotationByPath ==
    pc = "described" =>
        \A i \in 1..Len(schema[2].commands[2]) :
            /\ \A f \in {"stdin", "stdout", "examples"} :
                   CommandAt(schema, i)[2][f]
                       = AnnField(AnnotationAt(CommandAt(schema, i)[2].name), f)
            /\ OthersChangeNothing(i)

\* the value an annotation supplies for a field: a value that is not empty
Supplied(annotation, f) ==
    IF Truthy(AnnField(annotation, f)) THEN AnnField(annotation, f) ELSE None

\* C18 amended: stdin, stdout and examples of each emitted command are the
\* values its own annotation holds for them when they are not empty, and are
\* absent otherwise (no annotation for the path, no value, or an empty list
\* of examples); the annotations keyed by other paths change nothing of the
\* command: its stdin, stdout, examples and arguments.
C18_NonEmptyAnnotationByPath ==
    pc = "described" =>
        \A i \in 1..Len(schema[2].commands[2]) :
            /\ \A f \in {"stdin", "stdout", "examples"} :
                   CommandAt(schema, i)[2][f]
                       = Supplied(AnnotationAt(CommandAt(schema, i)[2].name), f)
            /\ OthersChangeNothing(i)

\* C18 witness: the nested tree with stdout and examples annotated for "a b"
\* and stdin for "d": "a b" has stdout and examples and no stdin
C18_Witness ==
    /\ pc = "described"
    /\ cli = tree_nested
    /\ DictKeys(Annotations) = {PyStr(<<"a", " ", "b">>), PyStr(<<"d">>)}
    /\ AnnotationAt(PyStr(<<"d">>))[2].stdin = io_text
    /\ CommandAt(schema, 1)[2].name = PyStr(<<"a", " ", "b">>)
    /\ CommandAt(schema, 1)[2].stdin = None
    /\ CommandAt(schema, 1)[2].stdout = io_json
    /\ CommandAt(schema, 1)[2].examples = PyList(<<example_run>>)
    /\ CommandAt(schema, 2)[2].stdin = io_text

(***************************************************************************)
(* Claims about keys of extra that collide with fields (SpecAuth)          *)
(***************************************************************************)
\* the extra map of the auth configuration, as items (empty when absent)
ExtraItems ==
    IF options[2].auth[2].extra = None THEN <<>>
    ELSE options[2].auth[2].extra[2]

\* C19: when extra has a key type or description, the serialized auth object
\* has that key once, mapped to the value extra gives it: the merge of extra
\* comes after the fields and overwrites them, so the value of the field of
\* the same name is not serialized.
C19_ExtraOverwritesFields ==
    pc = "serialized" =>
        \A k \in {PyStr(FieldChars("type")), PyStr(FieldChars("description"))} :
            k \in DictKeys(ExtraItems) =>
                /\ Cardinality({i \in 1..Len(AuthItems) : AuthItems[i][1] = k})
                       = 1
                /\ DictGet(AuthItems, k) = DictGet(ExtraItems, k)

\* C19 witness: an auth configuration of type oauth2 with a description,
\* whose extra maps type to a URL and description to 0, serialized: neither
\* oauth2 nor the description is in the auth object
C19_Witness ==
    /\ pc = "serialized"
    /\ options[2].auth[2].type = PyStr(<<"o", "a", "u", "t", "h", "2">>)
    /\ options[2].auth[2].description = PyStr(<<"O", "A", "u", "t", "h", "2">>)
    /\ ExtraItems = <<<<PyStr(<<"t", "y", "p", "e">>), PyStr(<<"h", "t", "t", "p", "s", ":", "/", "/", "x">>)>>,
                      <<PyStr(<<"d", "e", "s", "c", "r", "i", "p", "t", "i", "o", "n">>), PyInt(0)>>>>
    /\ AuthItems = <<<<PyStr(<<"t", "y", "p", "e">>), PyStr(<<"h", "t", "t", "p", "s", ":", "/", "/", "x">>)>>,
                     <<PyStr(<<"d", "e", "s", "c", "r", "i", "p", "t", "i", "o", "n">>), PyInt(0)>>>>
=============================================================================
